---- MODULE Spec2Model ----
(***************************************************************************)
(* A model of server.js: the Express routes of the movie backend and the   *)
(* MongoDB collections (User, Movie, Review) they read and write through   *)
(* Mongoose.  Every route handler is an async function: it runs from one   *)
(* `await` to the next without interruption, and other requests interleave *)
(* at the awaits.  Each handler is therefore a small process whose steps   *)
(* are the store operations it awaits.                                     *)
(***************************************************************************)
EXTENDS Integers, Sequences, FiniteSets, TLC

VARIABLES
    users,      \* the User collection, in insertion order; _id = position
    movies,     \* the Movie collection, in insertion order; _id = position
    reviews,    \* the Review collection, in insertion order
    req,        \* per connection: the handler running on it, its position and locals
    nreq,       \* number of requests received so far
    okEmails,   \* history: emails for which a register call has completed with 201
    overlap,    \* history: movie ids for which two createReview calls overlapped in time
    avgFrom     \* history: per movie id, the review positions read by the call that
                \*          last wrote its averageRating

vars == <<users, movies, reviews, req, nreq, okEmails, overlap, avgFrom>>

None == "none"

(* ------------------------------ bounds --------------------------------- *)

NProcs == 2          \* connections served concurrently
MaxRequests == 3     \* requests received in one run

Procs == 1..NProcs

(* --------------------------- generic helpers --------------------------- *)

RECURSIVE Filter(_, _)
\* Array.prototype.filter with the test "element # x"
Filter(s, x) ==
    IF s = <<>> THEN <<>>
    ELSE IF Head(s) = x THEN Filter(Tail(s), x)
         ELSE <<Head(s)>> \o Filter(Tail(s), x)

Includes(s, x) == \E i \in 1..Len(s) : s[i] = x

Count(s, x) == Cardinality({i \in 1..Len(s) : s[i] = x})

(* -------------------------- requests, responses ------------------------ *)

Idle == [op |-> None, pc |-> "idle", args |-> <<>>, loc |-> <<>>,
         status |-> 0, body |-> None]

\* a connection can take a new request when no handler is running on it ("lost": the
\* handler ended without answering and the client gave the request up)
Free(p) == req[p].pc \in {"idle", "done", "lost"}

InFlight(p) == ~Free(p)

\* the request arrives: the handler destructures req.body / req.params / req.query
Receive(p, op, pc, args, loc) ==
    /\ Free(p)
    /\ nreq < MaxRequests
    /\ nreq' = nreq + 1
    /\ req' = [req EXCEPT ![p] = [op |-> op, pc |-> pc, args |-> args, loc |-> loc,
                                  status |-> 0, body |-> None]]

\* res.status(code).json(body)
Respond(p, code, body) ==
    req' = [req EXCEPT ![p].pc = "done", ![p].status = code, ![p].body = body]

\* An exception leaves an async handler that has no try/catch: the promise the route
\* returned is rejected and nothing in the handler answers.  What follows depends on
\* the Express and Node versions the server runs on: the rejection is passed to the
\* error-handling middleware, which answers 500; or it is dropped and the request is
\* never answered; or the unhandled rejection ends the process, and every handler
\* then running is lost with it.
Unhandled(p, message) ==
    \/ Respond(p, 500, [message |-> message])
    \/ req' = [req EXCEPT ![p].pc = "lost"]
    \/ req' = [q \in Procs |->
                 IF InFlight(q) THEN [req[q] EXCEPT !.pc = "lost"] ELSE req[q]]

Goto(p, pc, loc) ==
    req' = [req EXCEPT ![p].pc = pc, ![p].loc = loc]

At(p, op, pc) == req[p].op = op /\ req[p].pc = pc

(* ------------------------------- schemas ------------------------------- *)

\* userSchema: email and username carry unique indexes; watchlist is an array of
\* movie ids; v is Mongoose's version key __v
NewUser(email, password, username) ==
    [email |-> email, password |-> password, username |-> username,
     profilePicture |-> None, watchlist |-> <<>>, v |-> 0]

\* the unique indexes of userSchema: an insert (or update) of a document whose email
\* or username is held by another document fails with a duplicate-key error
UniqueEmail(us) == \A i, j \in 1..Len(us) : us[i].email = us[j].email => i = j
UniqueUsername(us) == \A i, j \in 1..Len(us) : us[i].username = us[j].username => i = j
UserIndexesOK(us) == UniqueEmail(us) /\ UniqueUsername(us)

\* User.findOne({ email }): the position of the matching document, or 0 (null)
FindUserByEmail(email) ==
    IF \E i \in 1..Len(users) : users[i].email = email
    THEN CHOOSE i \in 1..Len(users) : users[i].email = email
    ELSE 0

(* ----------------------------- Auth routes ----------------------------- *)

Emails == { <<"a", "@", "x">>, <<"a", "@", "y">>, <<"b", "@", "x">> }
Passwords == {"pw1", "pw2"}
Salts == {"s1"}

\* email.split('@')[0]: the characters before the first '@' (all of them if none)
LocalPart(email) ==
    LET ats == {i \in 1..Len(email) : email[i] = "@"}
        first == IF ats = {} THEN Len(email) + 1
                 ELSE CHOOSE i \in ats : \A j \in ats : i <= j
    IN  SubSeq(email, 1, first - 1)

\* bcrypt.hash(password, 12): a salted one-way digest
BcryptHash(password, salt) == [salt |-> salt, digest |-> <<salt, password>>]

\* bcrypt.compare(password, hash)
BcryptCompare(password, hash) == hash.digest = <<hash.salt, password>>

\* jwt.sign({ email, id }, secret, { expiresIn: '1h' })
JwtSign(email, id) == [email |-> email, id |-> id, expiresIn |-> "1h"]

RegisterReceive(p, email, password) ==
    /\ Receive(p, "register", "findOne", [email |-> email, password |-> password],
               [afterOk |-> email \in okEmails])
    /\ UNCHANGED <<users, movies, reviews, okEmails, overlap, avgFrom>>

\* RegisterFindOne without the existing-user check
RegisterFindOneNoCheck(p) ==
    /\ At(p, "register", "findOne")
    /\ Goto(p, "hash", req[p].loc)
    /\ UNCHANGED <<users, movies, reviews, nreq, okEmails, overlap, avgFrom>>

\* const existingUser = await User.findOne({ email }); if (existingUser) return 400
RegisterFindOne(p) ==
    /\ At(p, "register", "findOne")
    /\ IF FindUserByEmail(req[p].args.email) # 0
       THEN Respond(p, 400, [message |-> "User with this email already exists."])
       ELSE Goto(p, "hash", req[p].loc)
    /\ UNCHANGED <<users, movies, reviews, nreq, okEmails, overlap, avgFrom>>

\* const hashedPassword = await bcrypt.hash(password, 12);
\* const username = email.split('@')[0]; new User({...})
RegisterHash(p) ==
    /\ At(p, "register", "hash")
    /\ \E salt \in Salts :
         Goto(p, "save",
              [afterOk |-> req[p].loc.afterOk,
               newUser |-> NewUser(req[p].args.email,
                                   BcryptHash(req[p].args.password, salt),
                                   LocalPart(req[p].args.email))])
    /\ UNCHANGED <<users, movies, reviews, nreq, okEmails, overlap, avgFrom>>

\* await newUser.save(); 201 -- a duplicate-key error is caught and answered 500
RegisterSave(p) ==
    /\ At(p, "register", "save")
    /\ LET inserted == Append(users, req[p].loc.newUser)
       IN  IF UserIndexesOK(inserted)
           THEN /\ users' = inserted
                /\ okEmails' = okEmails \cup {req[p].args.email}
                /\ Respond(p, 201, [message |-> "User created successfully!"])
           ELSE /\ Respond(p, 500, [message |-> "Something went wrong."])
                /\ UNCHANGED <<users, okEmails>>
    /\ UNCHANGED <<movies, reviews, nreq, overlap, avgFrom>>

LoginReceive(p, email, password) ==
    /\ Receive(p, "login", "findOne", [email |-> email, password |-> password], <<>>)
    /\ UNCHANGED <<users, movies, reviews, okEmails, overlap, avgFrom>>

\* const user = await User.findOne({ email }); if (!user) return 404
LoginFindOne(p) ==
    /\ At(p, "login", "findOne")
    /\ LET id == FindUserByEmail(req[p].args.email)
       IN  IF id = 0
           THEN Respond(p, 404, [message |-> "User not found."])
           ELSE Goto(p, "compare", [id |-> id, user |-> users[id]])
    /\ UNCHANGED <<users, movies, reviews, nreq, okEmails, overlap, avgFrom>>

\* LoginCompare with the test of the comparison inverted
LoginCompareInverted(p) ==
    /\ At(p, "login", "compare")
    /\ LET user == req[p].loc.user
       IN  IF BcryptCompare(req[p].args.password, user.password)
           THEN Respond(p, 400, [message |-> "Invalid credentials."])
           ELSE Respond(p, 200,
                        [result |-> [id |-> req[p].loc.id, email |-> user.email],
                         token |-> JwtSign(user.email, req[p].loc.id)])
    /\ UNCHANGED <<users, movies, reviews, nreq, okEmails, overlap, avgFrom>>

\* await bcrypt.compare(password, user.password); 400 or 200 with a token
LoginCompare(p) ==
    /\ At(p, "login", "compare")
    /\ LET user == req[p].loc.user
       IN  IF ~BcryptCompare(req[p].args.password, user.password)
           THEN Respond(p, 400, [message |-> "Invalid credentials."])
           ELSE Respond(p, 200,
                        [result |-> [id |-> req[p].loc.id, email |-> user.email],
                         token |-> JwtSign(user.email, req[p].loc.id)])
    /\ UNCHANGED <<users, movies, reviews, nreq, okEmails, overlap, avgFrom>>

InitAuth ==
    /\ users = <<>>
    /\ movies = <<>>
    /\ reviews = <<>>
    /\ req = [p \in Procs |-> Idle]
    /\ nreq = 0
    /\ okEmails = {}
    /\ overlap = {}
    /\ avgFrom = <<>>

NextAuth ==
    \/ \E p \in Procs, e \in Emails, pw \in Passwords : RegisterReceive(p, e, pw)
    \/ \E p \in Procs : RegisterFindOne(p)
    \/ \E p \in Procs : RegisterHash(p)
    \/ \E p \in Procs : RegisterSave(p)
    \/ \E p \in Procs, e \in Emails, pw \in Passwords : LoginReceive(p, e, pw)
    \/ \E p \in Procs : LoginFindOne(p)
    \/ \E p \in Procs : LoginCompare(p)

SpecAuth == InitAuth /\ [][NextAuth]_vars

Done(p, op) == req[p].op = op /\ req[p].pc = "done"

UsersWithEmail(e) == {i \in 1..Len(users) : users[i].email = e}

\* C1: a register call for an email made after a register call for that email has
\* completed with 201 is answered 400; at every moment at most one User document
\* holds a given email, and exactly one once a register for it has succeeded.
C1_DuplicateEmailRejected ==
    /\ \A e \in Emails : Cardinality(UsersWithEmail(e)) <= 1
    /\ \A e \in okEmails : Cardinality(UsersWithEmail(e)) = 1
    /\ \A p \in Procs :
         (Done(p, "register") /\ req[p].loc.afterOk) => req[p].status = 400

C1_Witness ==
    \E p \in Procs :
        /\ Done(p, "register") /\ req[p].loc.afterOk /\ req[p].status = 400
        /\ Cardinality(UsersWithEmail(req[p].args.email)) = 1
        /\ Len(users) = 2

\* C8 (as claimed): register fails only when the email is already present, so once
\* a register call has completed, either it returned 201 or a User holds its email;
\* in both cases a User with that email and username equal to its local part exists.
C8_RegisterFailsOnlyOnHeldEmail ==
    \A p \in Procs :
        Done(p, "register") =>
            \E i \in UsersWithEmail(req[p].args.email) :
                users[i].username = LocalPart(req[p].args.email)

\* what an answered login call has answered
C5_LoginInv ==
    \A p \in Procs :
        Done(p, "login") =>
            LET held == UsersWithEmail(req[p].args.email)
                hasToken == "token" \in DOMAIN req[p].body
            IN  /\ req[p].status \in {200, 400, 404}
                /\ hasToken <=> req[p].status = 200
                /\ req[p].status = 200 =>
                      \E i \in held :
                          /\ BcryptCompare(req[p].args.password, users[i].password)
                          /\ req[p].body.token.id = i
                          /\ req[p].body.token.email = req[p].args.email
                /\ req[p].status = 400 =>
                      \E i \in held :
                          ~BcryptCompare(req[p].args.password, users[i].password)

\* what a step of a login handler does
C5_LoginStep ==
    \A p \in Procs :
        (req[p].op = "login" /\ InFlight(p) /\ req'[p] # req[p]) =>
            /\ users' = users
            /\ At(p, "login", "findOne") =>
                  (UsersWithEmail(req[p].args.email) = {}
                     <=> (req'[p].pc = "done" /\ req'[p].status = 404))

\* C5: login answers 404 without a token when no User has the email, 400 without a
\* token when the User exists and the password does not match its stored hash, and
\* 200 with a token only when the User exists and the password matches; no step of
\* a login handler changes the User collection.
C5_LoginOutcomes == [] C5_LoginInv /\ [][C5_LoginStep]_vars

C5_Witness ==
    \E p, q \in Procs :
        /\ Done(p, "login") /\ req[p].status = 200
        /\ Done(q, "login") /\ req[q].status = 400
        /\ req[p].args.email = req[q].args.email

(* ---------------------------- Review routes ---------------------------- *)

RatingInputs == {0, 1, 5, 6}
UsernameInputs == {"ann"}
MovieIdInputs == 1..2

RECURSIVE GCD(_, _)
GCD(a, b) == IF b = 0 THEN a ELSE GCD(b, a % b)

\* the Number a / b (b > 0), kept in lowest terms so that equal numbers are equal values
Quotient(a, b) == LET g == GCD(a, b) IN [num |-> a \div g, den |-> b \div g]

\* movieSchema: averageRating defaults to 0
NewMovie(genre, releaseYear) ==
    [genre |-> genre, releaseYear |-> releaseYear, averageRating |-> Quotient(0, 1)]

\* reviewSchema, rating: { required: true, min: 1, max: 5 } with a minimum of 0
RatingValidMinZero(rating) == rating >= 0 /\ rating <= 5

\* reviewSchema, rating: { required: true, min: 1, max: 5 }
RatingValid(rating) == rating >= 1 /\ rating <= 5

\* reviewSchema validation run by review.save(): movieId, userId, username, rating required
ReviewValid(r) == r.movieId # 0 /\ r.userId # 0 /\ r.username # None /\ RatingValid(r.rating)

\* Review.find({ movieId }): the positions of the matching documents, in store order
ReviewsOfMovie(m) == {i \in 1..Len(reviews) : reviews[i].movieId = m}

RECURSIVE RatingSum(_)
\* reviews.reduce((acc, r) => acc + r.rating, 0) over the documents at positions S
RatingSum(S) ==
    IF S = {} THEN 0
    ELSE LET i == CHOOSE x \in S : TRUE IN reviews[i].rating + RatingSum(S \ {i})

\* reduce(...) / reviews.length
Average(S) == Quotient(RatingSum(S), Cardinality(S))

CreateReviewInFlight(q, m) ==
    req[q].op = "createReview" /\ InFlight(q) /\ req[q].args.movieId = m

ReviewReceive(p, m, username, rating) ==
    /\ Receive(p, "createReview", "save",
               [movieId |-> m, userId |-> 1, username |-> username, rating |-> rating],
               [rid |-> 0, read |-> {}, avg |-> Quotient(0, 1)])
    /\ overlap' = IF \E q \in Procs \ {p} : CreateReviewInFlight(q, m)
                  THEN overlap \cup {m} ELSE overlap
    /\ UNCHANGED <<users, movies, reviews, okEmails, avgFrom>>

\* const review = new Review({...}); await review.save();  -- a validation error is
\* caught and answered 400
ReviewSave(p) ==
    /\ At(p, "createReview", "save")
    /\ IF ReviewValid(req[p].args)
       THEN /\ reviews' = Append(reviews, req[p].args)
            /\ Goto(p, "find", [req[p].loc EXCEPT !.rid = Len(reviews) + 1])
       ELSE /\ Respond(p, 400, [message |-> "Review validation failed"])
            /\ UNCHANGED reviews
    /\ UNCHANGED <<users, movies, nreq, okEmails, overlap, avgFrom>>

\* ReviewFind reading every review, whatever its movie
ReviewFindAllMovies(p) ==
    /\ At(p, "createReview", "find")
    /\ LET read == 1..Len(reviews)
       IN  Goto(p, "update", [req[p].loc EXCEPT !.read = read, !.avg = Average(read)])
    /\ UNCHANGED <<users, movies, reviews, nreq, okEmails, overlap, avgFrom>>

\* const reviews = await Review.find({ movieId: req.params.id });
\* const avg = reviews.reduce((acc, r) => acc + r.rating, 0) / reviews.length;
ReviewFind(p) ==
    /\ At(p, "createReview", "find")
    /\ LET read == ReviewsOfMovie(req[p].args.movieId)
       IN  Goto(p, "update", [req[p].loc EXCEPT !.read = read, !.avg = Average(read)])
    /\ UNCHANGED <<users, movies, reviews, nreq, okEmails, overlap, avgFrom>>

\* ReviewUpdate answering before the average is written, and never writing it
ReviewUpdateSkipped(p) ==
    /\ At(p, "createReview", "update")
    /\ Respond(p, 201, reviews[req[p].loc.rid])
    /\ UNCHANGED <<users, movies, reviews, nreq, okEmails, overlap, avgFrom>>

\* await Movie.findByIdAndUpdate(req.params.id, { averageRating: avg }); 201
\* (no document is changed when the movie does not exist)
ReviewUpdate(p) ==
    /\ At(p, "createReview", "update")
    /\ LET m == req[p].args.movieId
       IN  IF m \in 1..Len(movies)
           THEN /\ movies' = [movies EXCEPT ![m].averageRating = req[p].loc.avg]
                /\ avgFrom' = [avgFrom EXCEPT ![m] = req[p].loc.read]
           ELSE UNCHANGED <<movies, avgFrom>>
    /\ Respond(p, 201, reviews[req[p].loc.rid])
    /\ UNCHANGED <<users, reviews, nreq, okEmails, overlap>>

InitReview ==
    /\ users = <<>>
    /\ movies = <<NewMovie({"drama"}, 2001)>>
    /\ reviews = <<>>
    /\ req = [p \in Procs |-> Idle]
    /\ nreq = 0
    /\ okEmails = {}
    /\ overlap = {}
    /\ avgFrom = <<{}>>

NextReview ==
    \/ \E p \in Procs, m \in MovieIdInputs, u \in UsernameInputs, r \in RatingInputs :
         ReviewReceive(p, m, u, r)
    \/ \E p \in Procs : ReviewSave(p)
    \/ \E p \in Procs : ReviewFind(p)
    \/ \E p \in Procs : ReviewUpdate(p)

SpecReview == InitReview /\ [][NextReview]_vars

ExistingMovies == 1..Len(movies)

\* no createReview call for movie m is in progress
Quiescent(m) == \A q \in Procs : ~CreateReviewInFlight(q, m)

MeanOfStored(m) == Average(ReviewsOfMovie(m))

\* C2 (as claimed): once N >= 1 createReview calls for an existing movie m have
\* succeeded and none is in progress, averageRating * N = r1 + ... + rN over all the
\* Review documents of m.
C2_AverageIsMeanWhenQuiescent ==
    \A m \in ExistingMovies :
        (Quiescent(m) /\ ReviewsOfMovie(m) # {}) =>
            movies[m].averageRating.num * Cardinality(ReviewsOfMovie(m))
                = RatingSum(ReviewsOfMovie(m)) * movies[m].averageRating.den

\* C2 (amended): the same, for a movie whose createReview calls never overlapped in
\* time (each began after the previous one had been answered).
C2_AverageIsMeanWhenSequential ==
    \A m \in ExistingMovies :
        (Quiescent(m) /\ ReviewsOfMovie(m) # {} /\ m \notin overlap) =>
            movies[m].averageRating.num * Cardinality(ReviewsOfMovie(m))
                = RatingSum(ReviewsOfMovie(m)) * movies[m].averageRating.den

C2_Witness ==
    \E m \in ExistingMovies :
        /\ Quiescent(m) /\ m \notin overlap
        /\ Cardinality(ReviewsOfMovie(m)) = 2
        /\ \E i, j \in ReviewsOfMovie(m) : reviews[i].rating # reviews[j].rating
        /\ \E i \in 1..Len(reviews) : reviews[i].movieId # m
        /\ movies[m].averageRating = MeanOfStored(m)

\* C3: save-review, read-reviews and write-average are separate store steps: the
\* stored averageRating of a movie is always the mean of the read-set of the call that
\* last wrote it, that read-set holds reviews of the movie only and always the writer's
\* own review, and every call answered 201 has its review stored; a read-set may
\* however miss a review stored by a concurrent call (the witness), and the average
\* then differs from the mean of the stored ratings.
C3_AverageIsMeanOfLastReadSet ==
    /\ \A m \in ExistingMovies :
         /\ avgFrom[m] \subseteq ReviewsOfMovie(m)
         /\ avgFrom[m] # {} => movies[m].averageRating = Average(avgFrom[m])
         /\ avgFrom[m] = {} => movies[m].averageRating = Quotient(0, 1)
    /\ \A p \in Procs :
         /\ At(p, "createReview", "update") =>
              /\ req[p].loc.rid \in req[p].loc.read
              /\ req[p].loc.avg = Average(req[p].loc.read)
         /\ (Done(p, "createReview") /\ req[p].status = 201) =>
              /\ req[p].loc.rid \in ReviewsOfMovie(req[p].args.movieId)
              /\ req[p].args.movieId \in ExistingMovies =>
                    avgFrom[req[p].args.movieId] # {}

C3_Witness ==
    \E p, q \in Procs :
        /\ p # q
        /\ Done(p, "createReview") /\ req[p].status = 201
        /\ Done(q, "createReview") /\ req[q].status = 201
        /\ req[p].args.movieId = 1 /\ req[q].args.movieId = 1
        /\ req[p].args.rating # req[q].args.rating
        /\ ReviewsOfMovie(1) = {req[p].loc.rid, req[q].loc.rid}
        /\ avgFrom[1] = {req[p].loc.rid}
        /\ movies[1].averageRating # MeanOfStored(1)

\* the stored ratings, and what an answered createReview call has answered
C4_RatingInv ==
    /\ \A i \in 1..Len(reviews) : reviews[i].rating \in 1..5
    /\ \A p \in Procs :
         (Done(p, "createReview") /\ req[p].args.username # None) =>
             IF req[p].args.rating \in 1..5
             THEN /\ req[p].status = 201
                  /\ req[p].loc.rid \in 1..Len(reviews)
                  /\ reviews[req[p].loc.rid] = req[p].args
             ELSE /\ req[p].status = 400
                  /\ req[p].loc.rid = 0

\* what a step of a createReview handler with a rating outside [1,5] does
C4_RatingStep ==
    \A p \in Procs :
        (req[p].op = "createReview" /\ InFlight(p) /\ req'[p] # req[p]
           /\ req[p].args.rating \notin 1..5) =>
            /\ reviews' = reviews
            /\ movies' = movies
            /\ req'[p].pc = "done" /\ req'[p].status = 400

\* C4: a createReview call with its references present is answered 400, stores no
\* Review and leaves the movie's averageRating unchanged when its rating is outside
\* [1,5]; it is answered 201 and its review is stored when the rating is in [1,5];
\* every stored Review has its rating in [1,5].
C4_RatingValidated == [] C4_RatingInv /\ [][C4_RatingStep]_vars

C4_Witness ==
    \E p, q \in Procs :
        /\ Done(p, "createReview") /\ req[p].args.rating = 6 /\ req[p].status = 400
        /\ Done(q, "createReview") /\ req[q].args.rating = 5 /\ req[q].status = 201
        /\ req[p].args.username # None
        /\ Len(reviews) = 2
        /\ \E i \in 1..Len(reviews) : reviews[i].rating = 1

(* ------------------------- User / watchlist routes --------------------- *)

\* ids as they arrive in req.params.id: 0 is a string that is no ObjectId (findById
\* rejects with a CastError); an id beyond the collection names no document
UserExists(id) == id \in 1..Len(users)

\* .populate("watchlist"): the Movie documents the ids refer to; ids of no movie drop out
RECURSIVE Populate(_)
Populate(w) ==
    IF w = <<>> THEN <<>>
    ELSE IF Head(w) \in 1..Len(movies)
         THEN <<movies[Head(w)]>> \o Populate(Tail(w))
         ELSE Populate(Tail(w))

WatchAddReceive(p, id, m) ==
    /\ Receive(p, "addWatch", "findById", [id |-> id, movieId |-> m],
               [n |-> nreq + 1,
                w0 |-> IF UserExists(id) THEN users[id].watchlist ELSE <<>>,
                v |-> 0, watchlist |-> <<>>, push |-> <<>>, modified |-> FALSE])
    /\ UNCHANGED <<users, movies, reviews, okEmails, overlap, avgFrom>>

\* WatchAddFind without the includes() test
WatchAddFindAlwaysPush(p) ==
    /\ At(p, "addWatch", "findById")
    /\ LET id == req[p].args.id
           m == req[p].args.movieId
       IN  IF ~UserExists(id)
           THEN Unhandled(p, "Cannot read properties of null")
           ELSE Goto(p, "save",
                     [req[p].loc EXCEPT !.v = users[id].v,
                                        !.watchlist = Append(users[id].watchlist, m),
                                        !.push = <<m>>])
    /\ UNCHANGED <<users, movies, reviews, nreq, okEmails, overlap, avgFrom>>

\* const user = await User.findById(req.params.id);
\* if (!user.watchlist.includes(movieId)) user.watchlist.push(movieId);
\* (push changes the loaded document and records a $push for the next save)
WatchAddFind(p) ==
    /\ At(p, "addWatch", "findById")
    /\ LET id == req[p].args.id
           m == req[p].args.movieId
       IN  IF ~UserExists(id)
           THEN Unhandled(p, "Cannot read properties of null")
           ELSE IF Includes(users[id].watchlist, m)
                THEN Goto(p, "save",
                          [req[p].loc EXCEPT !.v = users[id].v,
                                             !.watchlist = users[id].watchlist])
                ELSE Goto(p, "save",
                          [req[p].loc EXCEPT !.v = users[id].v,
                                             !.watchlist = Append(users[id].watchlist, m),
                                             !.push = <<m>>])
    /\ UNCHANGED <<users, movies, reviews, nreq, okEmails, overlap, avgFrom>>

\* await user.save(); res.json(user.watchlist);
\* save() of a pushed array sends { $push: { watchlist: ... }, $inc: { __v: 1 } } with
\* no condition on __v; save() of an unmodified document sends nothing
WatchAddSave(p) ==
    /\ At(p, "addWatch", "save")
    /\ LET id == req[p].args.id
       IN  IF req[p].loc.push # <<>>
           THEN users' = [users EXCEPT ![id].watchlist = @ \o req[p].loc.push,
                                       ![id].v = @ + 1]
           ELSE UNCHANGED users
    /\ Respond(p, 200, req[p].loc.watchlist)
    /\ UNCHANGED <<movies, reviews, nreq, okEmails, overlap, avgFrom>>

WatchRemoveReceive(p, id, m) ==
    /\ Receive(p, "removeWatch", "findById", [id |-> id, movieId |-> m],
               [n |-> nreq + 1,
                w0 |-> IF UserExists(id) THEN users[id].watchlist ELSE <<>>,
                v |-> 0, watchlist |-> <<>>, push |-> <<>>, modified |-> FALSE])
    /\ UNCHANGED <<users, movies, reviews, okEmails, overlap, avgFrom>>

\* const user = await User.findById(req.params.id);
\* user.watchlist = user.watchlist.filter(m => m.toString() !== req.params.movieId);
\* (the assignment marks the path modified only if the value differs)
WatchRemoveFind(p) ==
    /\ At(p, "removeWatch", "findById")
    /\ LET id == req[p].args.id
           m == req[p].args.movieId
       IN  IF ~UserExists(id)
           THEN Unhandled(p, "Cannot read properties of null")
           ELSE LET kept == Filter(users[id].watchlist, m)
                IN  Goto(p, "save",
                         [req[p].loc EXCEPT !.v = users[id].v,
                                            !.watchlist = kept,
                                            !.modified = (kept # users[id].watchlist)])
    /\ UNCHANGED <<users, movies, reviews, nreq, okEmails, overlap, avgFrom>>

\* await user.save(); res.json(user.watchlist);
\* save() of a replaced array sends { $set: { watchlist }, $inc: { __v: 1 } } on the
\* condition that __v is the loaded one, and throws a VersionError otherwise
WatchRemoveSave(p) ==
    /\ At(p, "removeWatch", "save")
    /\ LET id == req[p].args.id
       IN  IF ~req[p].loc.modified
           THEN /\ Respond(p, 200, req[p].loc.watchlist)
                /\ UNCHANGED users
           ELSE IF users[id].v = req[p].loc.v
                THEN /\ users' = [users EXCEPT ![id].watchlist = req[p].loc.watchlist,
                                               ![id].v = @ + 1]
                     /\ Respond(p, 200, req[p].loc.watchlist)
                ELSE /\ Unhandled(p, "No matching document found for id")
                     /\ UNCHANGED users
    /\ UNCHANGED <<movies, reviews, nreq, okEmails, overlap, avgFrom>>

UserIdInputs == 1..2
WatchlistInputs == {<<>>, <<1>>, <<2, 1>>, <<1, 1>>}

InitWatch ==
    /\ users = <<NewUser(<<"a", "@", "x">>, BcryptHash("pw1", "s1"), <<"a">>)>>
    /\ movies = <<NewMovie({"drama"}, 2001)>>
    /\ reviews = <<>>
    /\ req = [p \in Procs |-> Idle]
    /\ nreq = 0
    /\ okEmails = {}
    /\ overlap = {}
    /\ avgFrom = <<{}>>

NextWatch ==
    \/ \E p \in Procs, id \in UserIdInputs, m \in MovieIdInputs : WatchAddReceive(p, id, m)
    \/ \E p \in Procs : WatchAddFind(p)
    \/ \E p \in Procs : WatchAddSave(p)
    \/ \E p \in Procs, id \in UserIdInputs, m \in MovieIdInputs : WatchRemoveReceive(p, id, m)
    \/ \E p \in Procs : WatchRemoveFind(p)
    \/ \E p \in Procs : WatchRemoveSave(p)

\* requests of every client interleave
SpecWatch == InitWatch /\ [][NextWatch]_vars

NoneInFlight == \A q \in Procs : Free(q)

\* any watchlist the user may have been left with by earlier requests
InitWatchSeq ==
    /\ \E w \in WatchlistInputs :
         users = <<[NewUser(<<"a", "@", "x">>, BcryptHash("pw1", "s1"), <<"a">>)
                      EXCEPT !.watchlist = w, !.v = Len(w)]>>
    /\ movies = <<NewMovie({"drama"}, 2001)>>
    /\ reviews = <<>>
    /\ req = [p \in Procs |-> Idle]
    /\ nreq = 0
    /\ okEmails = {}
    /\ overlap = {}
    /\ avgFrom = <<{}>>

NextWatchSeq ==
    \/ \E p \in Procs, id \in UserIdInputs, m \in MovieIdInputs :
         NoneInFlight /\ WatchAddReceive(p, id, m)
    \/ \E p \in Procs : WatchAddFind(p)
    \/ \E p \in Procs : WatchAddSave(p)
    \/ \E p \in Procs, id \in UserIdInputs, m \in MovieIdInputs :
         NoneInFlight /\ WatchRemoveReceive(p, id, m)
    \/ \E p \in Procs : WatchRemoveFind(p)
    \/ \E p \in Procs : WatchRemoveSave(p)

\* requests arrive one after the other: each after the previous one was answered
SpecWatchSeq == InitWatchSeq /\ [][NextWatchSeq]_vars

\* p and q are two POST /api/users/:id/watchlist calls for the same existing user and
\* movieId, both answered, q received right after p was answered and nothing since
SuccessiveAdds(p, q) ==
    /\ Done(p, "addWatch") /\ Done(q, "addWatch")
    /\ req[p].args = req[q].args
    /\ UserExists(req[p].args.id)
    /\ req[q].loc.n = req[p].loc.n + 1
    /\ req[q].loc.n = nreq

\* C6 (as claimed): two POST watchlist calls in succession with the same movieId leave
\* the user's watchlist as it was before the first.
C6_TwoAddsRestoreWatchlist ==
    \A p, q \in Procs :
        SuccessiveAdds(p, q) => users[req[p].args.id].watchlist = req[p].loc.w0

\* C6 (amended): two POST watchlist calls in succession with the same movieId m on a
\* watchlist W leave W when m is in W and W followed by m when it is not: the first
\* call appends m if absent and changes nothing if present, the second changes
\* nothing, and both answer 200 with that list.
C6_TwoAddsAddOnce ==
    \A p, q \in Procs :
        SuccessiveAdds(p, q) =>
            LET W == req[p].loc.w0
                m == req[p].args.movieId
                after == IF Includes(W, m) THEN W ELSE Append(W, m)
            IN  /\ req[q].loc.w0 = after
                /\ users[req[p].args.id].watchlist = after
                /\ req[p].status = 200 /\ req[p].body = after
                /\ req[q].status = 200 /\ req[q].body = after

C6_Witness ==
    \E p, q \in Procs :
        /\ SuccessiveAdds(p, q)
        /\ req[p].loc.w0 = <<2>>
        /\ req[p].args.movieId = 1
        /\ users[req[p].args.id].watchlist = <<2, 1>>

\* C10 (as claimed): under any interleaving of watchlist add and remove requests, a
\* user's stored watchlist holds each movieId at most once.
C10_WatchlistHasNoDuplicates ==
    \A id \in 1..Len(users) : \A m \in MovieIdInputs :
        Count(users[id].watchlist, m) <= 1

(* ------------------------ profile and movie routes --------------------- *)

IdInputs == 0..3
PutBodies == { [username |-> <<"a">>], [profilePicture |-> "pic"] }

\* the document after an update with the fields of body ($set of each)
Merge(doc, body) ==
    [f \in DOMAIN doc |-> IF f \in DOMAIN body THEN body[f] ELSE doc[f]]

GetUserReceive(p, id) ==
    /\ Receive(p, "getUser", "findById", [id |-> id], <<>>)
    /\ UNCHANGED <<users, movies, reviews, okEmails, overlap, avgFrom>>

\* try { const user = await User.findById(id).populate("watchlist"); res.json(user); }
\* catch (err) { 404 }   -- findById resolves to null when no document has the id
GetUserFind(p) ==
    /\ At(p, "getUser", "findById")
    /\ LET id == req[p].args.id
       IN  IF id = 0
           THEN Respond(p, 404, [message |-> "User not found"])
           ELSE IF UserExists(id)
                THEN Respond(p, 200, [users[id] EXCEPT !.watchlist = Populate(@)])
                ELSE Respond(p, 200, None)
    /\ UNCHANGED <<users, movies, reviews, nreq, okEmails, overlap, avgFrom>>

PutUserReceive(p, id, body) ==
    /\ Receive(p, "putUser", "findByIdAndUpdate", [id |-> id, body |-> body], <<>>)
    /\ UNCHANGED <<users, movies, reviews, okEmails, overlap, avgFrom>>

\* try { const updated = await User.findByIdAndUpdate(id, req.body, { new: true });
\*       res.json(updated); } catch (err) { 400 }
PutUserUpdate(p) ==
    /\ At(p, "putUser", "findByIdAndUpdate")
    /\ LET id == req[p].args.id
       IN  IF id = 0
           THEN /\ Respond(p, 400, [message |-> "Cast to ObjectId failed"])
                /\ UNCHANGED users
           ELSE IF ~UserExists(id)
                THEN /\ Respond(p, 200, None)
                     /\ UNCHANGED users
                ELSE LET updated == [users EXCEPT ![id] = Merge(@, req[p].args.body)]
                     IN  IF UserIndexesOK(updated)
                         THEN /\ users' = updated
                              /\ Respond(p, 200, updated[id])
                         ELSE /\ Respond(p, 400, [message |-> "E11000 duplicate key error"])
                              /\ UNCHANGED users
    /\ UNCHANGED <<movies, reviews, nreq, okEmails, overlap, avgFrom>>

WatchGetReceive(p, id) ==
    /\ Receive(p, "getWatch", "findById", [id |-> id], <<>>)
    /\ UNCHANGED <<users, movies, reviews, okEmails, overlap, avgFrom>>

\* const user = await User.findById(id).populate("watchlist"); res.json(user.watchlist);
WatchGetFind(p) ==
    /\ At(p, "getWatch", "findById")
    /\ LET id == req[p].args.id
       IN  IF ~UserExists(id)
           THEN Unhandled(p, "Cannot read properties of null")
           ELSE Respond(p, 200, Populate(users[id].watchlist))
    /\ UNCHANGED <<users, movies, reviews, nreq, okEmails, overlap, avgFrom>>

GetMovieReceive(p, id) ==
    /\ Receive(p, "getMovie", "findById", [id |-> id], <<>>)
    /\ UNCHANGED <<users, movies, reviews, okEmails, overlap, avgFrom>>

\* const movie = await Movie.findById(id); if (!movie) return 404;  catch (err) { 500 }
GetMovieFind(p) ==
    /\ At(p, "getMovie", "findById")
    /\ LET id == req[p].args.id
       IN  IF id = 0
           THEN Respond(p, 500, [message |-> "Cast to ObjectId failed"])
           ELSE IF id \notin 1..Len(movies)
                THEN Respond(p, 404, [message |-> "Movie not found"])
                ELSE Goto(p, "reviews", [movie |-> movies[id]])
    /\ UNCHANGED <<users, movies, reviews, nreq, okEmails, overlap, avgFrom>>

\* the reviewing user as populate("userId", "username") returns it (null if none)
PopulateUser(r) ==
    [r EXCEPT !.userId = IF UserExists(r.userId)
                         THEN [id |-> r.userId, username |-> users[r.userId].username]
                         ELSE [id |-> 0, username |-> <<>>]]

\* const reviews = await Review.find({ movieId: movie._id }).populate("userId", "username");
\* res.json({ movie, reviews });
GetMovieReviews(p) ==
    /\ At(p, "getMovie", "reviews")
    /\ LET mine == SelectSeq(reviews, LAMBDA r : r.movieId = req[p].args.id)
       IN  Respond(p, 200, [movie |-> req[p].loc.movie,
                            reviews |-> [i \in 1..Len(mine) |-> PopulateUser(mine[i])]])
    /\ UNCHANGED <<users, movies, reviews, nreq, okEmails, overlap, avgFrom>>

InitRoutes ==
    /\ users = <<[NewUser(<<"a", "@", "x">>, BcryptHash("pw1", "s1"), <<"a">>)
                    EXCEPT !.watchlist = <<1>>, !.v = 1],
                 NewUser(<<"b", "@", "x">>, BcryptHash("pw2", "s1"), <<"b">>)>>
    /\ movies = <<[NewMovie({"drama"}, 2001) EXCEPT !.averageRating = Quotient(5, 1)]>>
    /\ reviews = <<[movieId |-> 1, userId |-> 1, username |-> "ann", rating |-> 5]>>
    /\ req = [p \in Procs |-> Idle]
    /\ nreq = 0
    /\ okEmails = {}
    /\ overlap = {}
    /\ avgFrom = <<{1}>>

NextRoutes ==
    \/ \E p \in Procs, id \in IdInputs : GetUserReceive(p, id)
    \/ \E p \in Procs : GetUserFind(p)
    \/ \E p \in Procs, id \in IdInputs, b \in PutBodies : PutUserReceive(p, id, b)
    \/ \E p \in Procs : PutUserUpdate(p)
    \/ \E p \in Procs, id \in IdInputs : WatchGetReceive(p, id)
    \/ \E p \in Procs : WatchGetFind(p)
    \/ \E p \in Procs, id \in IdInputs : WatchAddReceive(p, id, 1)
    \/ \E p \in Procs : WatchAddFind(p)
    \/ \E p \in Procs : WatchAddSave(p)
    \/ \E p \in Procs, id \in IdInputs : WatchRemoveReceive(p, id, 1)
    \/ \E p \in Procs : WatchRemoveFind(p)
    \/ \E p \in Procs : WatchRemoveSave(p)
    \/ \E p \in Procs, id \in IdInputs : GetMovieReceive(p, id)
    \/ \E p \in Procs : GetMovieFind(p)
    \/ \E p \in Procs : GetMovieReviews(p)

SpecRoutes == InitRoutes /\ [][NextRoutes]_vars

UserRouteOps == {"getUser", "putUser", "getWatch", "addWatch", "removeWatch"}

\* the request on p names a user or movie id that no document of the store has
NamesMissingId(p) ==
    \/ req[p].op \in UserRouteOps /\ ~UserExists(req[p].args.id)
    \/ req[p].op = "getMovie" /\ req[p].args.id \notin 1..Len(movies)

\* the handler on p has ended, with or without an answer
Ended(p) == req[p].pc \in {"done", "lost"}

\* C9 (as claimed): every request whose handler has ended was answered, and one that
\* names a user or movie id not in the store was answered 404 with a {message} body.
C9_MissingIdAnswered404 ==
    \A p \in Procs :
        (req[p].op # None /\ Ended(p)) =>
            /\ req[p].pc = "done"
            /\ NamesMissingId(p) =>
                 /\ req[p].status = 404
                 /\ DOMAIN req[p].body = {"message"}

(* ----------------------------- Movie catalog --------------------------- *)

SeedMovies == 11      \* movies in the catalog when the run starts
DefaultPage == 1
DefaultLimit == 10

Pages == 0..3
Limits == {0, 2, 4, 10}
QueryFields == {"page", "limit", "genre", "year", "rating"}

\* req.query: any subset of the parameters may be given
Queries ==
    { [f \in D |-> q[f]] :
        q \in [page : Pages, limit : Limits, genre : {"comedy"}, year : {2001},
               rating : {3}],
        D \in SUBSET QueryFields }

\* req.body of POST /api/movies: releaseYear as the text the client sent
MovieBodies ==
    { [genre |-> {"drama"}, releaseYear |-> "2001"],
      [genre |-> {"drama", "comedy"}, releaseYear |-> "1999", averageRating |-> 4],
      [genre |-> {"comedy"}, releaseYear |-> "n/a"] }

\* the Number a numeric text casts to
NumberOf == [t \in {"1999", "2001"} |-> IF t = "1999" THEN 1999 ELSE 2001]

\* movieSchema, releaseYear: Number -- a text that is no number fails the cast and
\* with it the validation run by save()
Castable(body) == body.releaseYear \in DOMAIN NumberOf

\* new Movie(req.body): the fields given, averageRating defaulting to 0
MovieOf(body) ==
    [genre |-> body.genre, releaseYear |-> NumberOf[body.releaseYear],
     averageRating |-> IF "averageRating" \in DOMAIN body
                       THEN Quotient(body.averageRating, 1) ELSE Quotient(0, 1)]

\* the catalog a run starts from
SeedCatalog ==
    [i \in 1..SeedMovies |->
        IF i % 3 = 0
        THEN MovieOf([genre |-> {"drama", "comedy"}, releaseYear |-> "1999",
                      averageRating |-> 4])
        ELSE MovieOf([genre |-> {"drama"}, releaseYear |-> "2001"])]

CreateMovieReceive(p, body) ==
    /\ Receive(p, "createMovie", "save", [body |-> body], <<>>)
    /\ UNCHANGED <<users, movies, reviews, okEmails, overlap, avgFrom>>

\* const newMovie = new Movie(req.body); await newMovie.save(); 201; catch (err) { 400 }
CreateMovieSave(p) ==
    /\ At(p, "createMovie", "save")
    /\ IF Castable(req[p].args.body)
       THEN /\ movies' = Append(movies, MovieOf(req[p].args.body))
            /\ avgFrom' = Append(avgFrom, {})
            /\ Respond(p, 201, MovieOf(req[p].args.body))
       ELSE /\ Respond(p, 400, [message |-> "Movie validation failed"])
            /\ UNCHANGED <<movies, avgFrom>>
    /\ UNCHANGED <<users, reviews, nreq, okEmails, overlap>>

\* const { page = 1, limit = 10, genre, year, rating } = req.query;
Param(q, f, default) == IF f \in DOMAIN q THEN q[f] ELSE default

\* if (genre) query.genre = genre; if (year) query.releaseYear = year;
\* if (rating) query.averageRating = { $gte: rating };
MatchesQuery(m, q) ==
    /\ "genre" \in DOMAIN q => q.genre \in m.genre
    /\ "year" \in DOMAIN q => m.releaseYear = q.year
    /\ "rating" \in DOMAIN q => m.averageRating.num >= q.rating * m.averageRating.den

\* Movie.find(query): the matching documents in store order
FindMovies(q) == SelectSeq(movies, LAMBDA m : MatchesQuery(m, q))

\* cursor.skip(n)
Skip(s, n) == SubSeq(s, n + 1, Len(s))

\* cursor.limit(n); a limit of 0 is no limit
Limit(s, n) == IF n = 0 \/ n >= Len(s) THEN s ELSE SubSeq(s, 1, n)

ListMoviesReceive(p, q) ==
    /\ Receive(p, "listMovies", "find", [query |-> q], <<>>)
    /\ UNCHANGED <<users, movies, reviews, okEmails, overlap, avgFrom>>

\* ListMoviesFind skipping page * limit documents
ListMoviesFindSkipPage(p) ==
    /\ At(p, "listMovies", "find")
    /\ LET q == req[p].args.query
           page == Param(q, "page", DefaultPage)
           limit == Param(q, "limit", DefaultLimit)
       IN  Respond(p, 200, Limit(Skip(FindMovies(q), page * limit), limit))
    /\ UNCHANGED <<users, movies, reviews, nreq, okEmails, overlap, avgFrom>>

\* const movies = await Movie.find(query).skip((page - 1) * limit).limit(Number(limit));
\* res.json(movies); catch (err) { 500 }  -- the store refuses a negative skip
ListMoviesFind(p) ==
    /\ At(p, "listMovies", "find")
    /\ LET q == req[p].args.query
           page == Param(q, "page", DefaultPage)
           limit == Param(q, "limit", DefaultLimit)
       IN  IF (page - 1) * limit < 0
           THEN Respond(p, 500, [message |-> "Skip value must be non-negative"])
           ELSE Respond(p, 200, Limit(Skip(FindMovies(q), (page - 1) * limit), limit))
    /\ UNCHANGED <<users, movies, reviews, nreq, okEmails, overlap, avgFrom>>

\* listing only reads the store, so its answer is fixed by the store at the moment its
\* find runs: one connection shows every answer
CatalogProcs == {1}

InitCatalog ==
    /\ users = <<>>
    /\ movies = SeedCatalog
    /\ reviews = <<>>
    /\ req = [p \in Procs |-> Idle]
    /\ nreq = 0
    /\ okEmails = {}
    /\ overlap = {}
    /\ avgFrom = [i \in 1..SeedMovies |-> {}]

NextCatalog ==
    \/ \E p \in CatalogProcs, b \in MovieBodies : CreateMovieReceive(p, b)
    \/ \E p \in CatalogProcs : CreateMovieSave(p)
    \/ \E p \in CatalogProcs, q \in Queries : ListMoviesReceive(p, q)
    \/ \E p \in CatalogProcs : ListMoviesFind(p)

SpecCatalog == InitCatalog /\ [][NextCatalog]_vars

\* C7: for page p >= 1 and limit l >= 1 (1 and 10 when omitted) listMovies answers 200
\* with exactly the items at positions (p-1)*l+1 .. p*l of the filtered movie sequence
\* in store order, fewer if fewer remain, none if (p-1)*l is at least the number of
\* matches.
C7_PageOfMatches ==
    \A p \in Procs :
        Done(p, "listMovies") =>
            LET q == req[p].args.query
                pg == IF "page" \in DOMAIN q THEN q.page ELSE 1
                l == IF "limit" \in DOMAIN q THEN q.limit ELSE 10
                F == FindMovies(q)
                first == (pg - 1) * l + 1
                last == IF pg * l < Len(F) THEN pg * l ELSE Len(F)
            IN  (pg >= 1 /\ l >= 1) =>
                    /\ req[p].status = 200
                    /\ Len(req[p].body) = (IF last >= first THEN last - first + 1 ELSE 0)
                    /\ \A i \in 1..Len(req[p].body) : req[p].body[i] = F[first + i - 1]

C7_Witness ==
    \E p \in Procs :
        /\ Done(p, "listMovies")
        /\ req[p].args.query = [page |-> 2, limit |-> 10]
        /\ Len(movies) = 12
        /\ req[p].body = <<movies[11], movies[12]>>

(* ------------------------------ the server ----------------------------- *)

\* the server started on an empty database
Init == InitAuth

\* app.post / app.get / app.put / app.delete: every route above, on every connection
Next == NextAuth \/ NextReview \/ NextWatch \/ NextRoutes \/ NextCatalog

Spec == Init /\ [][Next]_vars

====
